---- MODULE Spec2Model ----
(***************************************************************************)
(* Model of client/bootloader_flash.py: the firmware flashing tool of the  *)
(* CAN bootloader.  The program is sequential; its steps are the points    *)
(* where it talks to the bus (one command round, one read of the reply     *)
(* stream).  The bus, the boards and the reply reader are the environment: *)
(* their answers are chosen nondeterministically.                          *)
(***************************************************************************)
EXTENDS Integers, Sequences, FiniteSets, TLC

\* ------------------------------------------------------------------ bounds
MaxBoard == 2      \* board ids are 1..MaxBoard
MaxPages == 3      \* pages in a target's flash_pages table
MaxLen == 4        \* length of the binary, in bytes
MaxChunk == 2      \* target['chunk_size'] is 1..MaxChunk
MaxTimeouts == 2   \* timeout markers (None) the reply reader yields in one loop

PageSizes == {1, 2}      \* sizes a page of the table may have
SampleBytes == {0, 255}  \* byte values of the images given to slice_into_chunks

\* msgpack.packb(True) and msgpack.packb(False): the one-byte replies of a board
PackedTrue == 195
PackedFalse == 194
\* the wrong checksum the tests let a board report (0xdead)
BadCrc == 57005

Boards == 1..MaxBoard
\* the ids given on the command line: at least one (nargs='+'), taken distinct
Destinations == SUBSET Boards \ {{}}
\* what the reply reader yields: None on a timeout, else a datagram of which
\* the program reads the source id and the (msgpack-decoded) checksum
TimeoutMarker == [timeout |-> TRUE, src |-> 0, crc |-> 0]
Datagram(src, crc) == [timeout |-> FALSE, src |-> src, crc |-> crc]

\* ----------------------------------------------------------------- helpers
RECURSIVE SumSizes(_)
SumSizes(ps) == IF ps = <<>> THEN 0 ELSE ps[1][2] + SumSizes(Tail(ps))

RECURSIVE Concat(_)
Concat(ss) == IF ss = <<>> THEN <<>> ELSE ss[1] \o Concat(Tail(ss))

Take(s, n) == SubSeq(s, 1, n)
Drop(s, n) == SubSeq(s, n + 1, Len(s))

SeqsUpTo(S, n) == UNION {[1..k -> S] : k \in 0..n}

\* bytes(range(n)), the image the tests flash
RangeImage(n) == [i \in 1..n |-> (i - 1) % 256]

\* a page table laid out from address 0 with the given sizes
RECURSIVE PageTable(_, _)
PageTable(sizes, from) ==
    IF sizes = <<>> THEN <<>>
    ELSE <<<<from, sizes[1]>>>> \o PageTable(Tail(sizes), from + sizes[1])

PageTables == {PageTable(s, 0) : s \in UNION {[1..n -> PageSizes] : n \in 1..MaxPages}}

\* every target description: any page table, any base address up to the end
\* of the flash, any chunk size
Targets ==
    UNION {[base_address : 0..SumSizes(pt), chunk_size : 1..MaxChunk, flash_pages : {pt}]
           : pt \in PageTables}

\* the target of the tests (FlashBinaryTestCase.setUp) with pages of one
\* byte: n pages, the first one reserved, chunks of c bytes
TestTarget(n, c) ==
    [base_address |-> 1, chunk_size |-> c,
     flash_pages |-> PageTable([i \in 1..n |-> 1], 0)]

MainTargets == {TestTarget(n, c) : n \in 2..MaxPages, c \in 1..MaxChunk}

\* ---------------------------------------------------------- pure functions
\* zlib.crc32 stands for a checksum of the bytes: a fold over the data, kept
\* to 16 bits so that every value is an integer TLC can hold
RECURSIVE Crc32From(_, _)
Crc32From(crc, d) ==
    IF d = <<>> THEN crc
    ELSE Crc32From((crc * 31 + d[1] + 1) % 65536, Tail(d))

crc32(d) == Crc32From(0, d)

\* msgpack.unpackb of a board's one-byte boolean reply
unpackb(b) == b = PackedTrue

\* slice_next keeping data[chunk_size + 1:]
slice_next_skips(d, chunk_size) ==
    IF Len(d) > chunk_size
    THEN [chunk |-> Take(d, chunk_size), rest |-> Drop(d, chunk_size + 1), more |-> TRUE]
    ELSE [chunk |-> d, rest |-> d, more |-> FALSE]

\* one pull of the generator slice_into_chunks: the slice it yields, the data
\* it keeps, and whether the while loop yielded it (more slices follow)
slice_next(d, chunk_size) ==
    IF Len(d) > chunk_size
    THEN [chunk |-> Take(d, chunk_size), rest |-> Drop(d, chunk_size), more |-> TRUE]
    ELSE [chunk |-> d, rest |-> d, more |-> FALSE]

\* the loop that drops the bootloader and config pages (pages.pop(0)); the
\* table running empty is the IndexError of pages[0][0]
RECURSIVE SkipReserved(_, _)
SkipReserved(ps, base) ==
    IF ps = <<>> THEN [raised |-> "IndexError", pages |-> ps]
    ELSE IF ps[1][1] < base THEN SkipReserved(Tail(ps), base)
    ELSE [raised |-> "none", pages |-> ps]

\* the size check of pages_to_be_erased, on the pages left after the pops
FlashTooSmall(ps, length) == ps[Len(ps)][1] - ps[1][1] + ps[1][2] < length

\* the loop collecting the pages to erase
RECURSIVE SelectPages(_, _)
SelectPages(ps, length) ==
    IF ps = <<>> \/ length <= 0 THEN <<>>
    ELSE <<ps[1]>> \o SelectPages(Tail(ps), length - ps[1][2])

\* pages_to_be_erased(target, length): what it raises, the list it returns
\* and the flash_pages list it leaves in the caller's target (popped in place)
pages_to_be_erased(t, length) ==
    LET s == SkipReserved(t.flash_pages, t.base_address) IN
    IF s.raised # "none"
    THEN [raised |-> s.raised, erase |-> <<>>, flash_pages |-> s.pages]
    ELSE IF FlashTooSmall(s.pages, length)
    THEN [raised |-> "FlashSizeError", erase |-> <<>>, flash_pages |-> s.pages]
    ELSE [raised |-> "none", erase |-> SelectPages(s.pages, length),
          flash_pages |-> s.pages]

\* the per-board results a command round may return: a reply for any of the
\* boards on the bus, none for a board that never confirmed
Results == UNION {[S -> {PackedTrue, PackedFalse}] : S \in SUBSET Boards}

\* failed_boards with the test inverted (if msgpack.unpackb(success))
FailedBoardsInverted(r) == {id \in DOMAIN r : unpackb(r[id])}

\* failed_boards of flash_binary: the ids whose reply decodes to false
FailedBoards(r) == {id \in DOMAIN r : ~unpackb(r[id])}

\* a round in which every destination confirmed success
Unanimous(r, dst) == \A id \in dst : id \in DOMAIN r /\ unpackb(r[id])

\* WriteAddress that adds the index of the chunk, not its byte offset
WriteAddressUnscaled(base, off, cs) == base + off

\* the write loop's address of the chunk enumerate numbers off: the index is
\* scaled by the chunk size and added to the base address
WriteAddress(base, off, cs) == base + off * cs

Command(c, a, n, k, p, dst) ==
    [cmd |-> c, addr |-> a, size |-> n, crc |-> k, payload |-> p, dst |-> dst]

\* check_step that trusts every reply: the source is appended whatever the
\* checksum
check_step_any_crc(st, dt, expected_crc) ==
    IF dt.timeout THEN st
    ELSE [valid_nodes |-> Append(st.valid_nodes, dt.src),
          boards_checked |-> st.boards_checked + 1]

\* check_step that counts a timeout as a board checked
check_step_counts_timeout(st, dt, expected_crc) ==
    IF dt.timeout THEN [st EXCEPT !.boards_checked = st.boards_checked + 1]
    ELSE [valid_nodes |-> IF dt.crc = expected_crc
                          THEN Append(st.valid_nodes, dt.src)
                          ELSE st.valid_nodes,
          boards_checked |-> st.boards_checked + 1]

\* one pass of the while loop of check_binary over the datagram dt it drew:
\* a timeout is skipped, any other datagram is counted and its source
\* appended when its checksum is the expected one
check_step(st, dt, expected_crc) ==
    IF dt.timeout THEN st
    ELSE [valid_nodes |-> IF dt.crc = expected_crc
                          THEN Append(st.valid_nodes, dt.src)
                          ELSE st.valid_nodes,
          boards_checked |-> st.boards_checked + 1]

SetOf(s) == {s[i] : i \in DOMAIN s}

\* ------------------------------------------------------------------- state
VARIABLES
    entry,           \* the function the run entered: main, or one called directly
    pc,              \* where the program stands
    ids,             \* args.ids / destinations
    run,             \* args.run
    binary,          \* the image
    target,          \* the target description (flash_pages is popped in place)
    target0,         \* history: the target description as it was read from the file
    bus,             \* the commands sent so far, in order
    online_boards,   \* check_online_boards: the set it collects
    pages,           \* flash_binary: the pages to erase
    page_i,          \* flash_binary: index of the next page to erase
    data,            \* slice_into_chunks: the data not yet yielded
    offset,          \* flash_binary: enumerate() index of the next chunk
    chunks,          \* the slices slice_into_chunks yielded to a direct caller
    res,             \* flash_binary: the result of the last command round
    valid_nodes,     \* check_binary: the list it returns
    boards_checked,  \* check_binary: replies counted
    reads,           \* history: what next(reader) returned to check_binary
    msg,             \* the message printed or logged on the way out
    exit_code,       \* exit status, -1 while none
    raised,          \* the exception that left the program, "none" if none
    erase_unanimous, \* history: every erase round so far confirmed by every destination
    write_unanimous, \* history: every write round so far confirmed by every destination
    config_failed,   \* history: the configuration update failed on a destination
    silent,          \* environment: the boards have stopped replying for good
    ping_reads       \* history: what the reader returned to check_online_boards

vars == <<entry, pc, ids, run, binary, target, target0, bus, online_boards, pages, page_i,
          data, offset, chunks, res, valid_nodes, boards_checked, reads, msg,
          exit_code, raised, erase_unanimous, write_unanimous, config_failed,
          silent, ping_reads>>

NoMsg == [kind |-> "none", boards |-> {}]

Start(e, T, B, R) ==
    /\ entry = e
    /\ pc = e
    /\ target \in T
    /\ target0 = target
    /\ binary \in B
    /\ ids \in Destinations
    /\ run \in R
    /\ bus = <<>>
    /\ online_boards = {}
    /\ pages = <<>>
    /\ page_i = 1
    /\ data = IF e = "slice_into_chunks" THEN binary ELSE <<>>
    /\ offset = 0
    /\ chunks = <<>>
    /\ res = <<>>
    /\ valid_nodes = <<>>
    /\ boards_checked = 0
    /\ reads = <<>>
    /\ msg = NoMsg
    /\ exit_code = -1
    /\ raised = "none"
    /\ erase_unanimous = TRUE
    /\ write_unanimous = TRUE
    /\ config_failed = FALSE
    /\ silent = FALSE
    /\ ping_reads = <<>>

RangeImages == {RangeImage(n) : n \in 0..MaxLen}

\* the whole program
Init == Start("main", MainTargets, RangeImages, BOOLEAN)

\* flash_binary called on its own, on every target description
InitFlash == Start("flash_binary", Targets, RangeImages, {FALSE})

\* check_binary called on its own
InitCheck ==
    Start("check_binary", {TestTarget(MaxPages, MaxChunk)}, RangeImages, {FALSE})

\* slice_into_chunks called on its own, on every image
InitChunks ==
    /\ Start("slice_into_chunks",
             {TestTarget(MaxPages, c) : c \in 1..MaxChunk},
             SeqsUpTo(SampleBytes, MaxLen), {FALSE})
    /\ ids = Boards

\* Exit that drops the status (exit() with no argument)
ExitNoStatus(code, m) ==
    /\ pc' = "done"
    /\ exit_code' = 0
    /\ msg' = m

\* sys.exit(code) / exit(code), with the message that precedes it
Exit(code, m) ==
    /\ pc' = "done"
    /\ exit_code' = code
    /\ msg' = m

\* an exception nobody catches: the interpreter ends main with status 1
Raise(e) ==
    /\ pc' = "done"
    /\ raised' = e
    /\ exit_code' = IF entry = "main" THEN 1 ELSE exit_code
    /\ msg' = msg

\* ----------------------------------------------------------------- actions
\* check_online_boards: the ping is sent to the requested boards
CheckOnlineBoards ==
    /\ pc = "main"
    /\ bus' = Append(bus, Command("ping", 0, 0, 0, <<>>, ids))
    /\ online_boards' = {}
    /\ pc' = "ping_read"
    /\ UNCHANGED <<entry, ids, run, binary, target0, config_failed, silent, ping_reads, target, pages, page_i, data, offset,
                   chunks, res, valid_nodes, boards_checked, reads, msg, exit_code,
                   raised, erase_unanimous, write_unanimous>>

\* PingRead that skips a timeout (continue) instead of leaving the loop
PingReadSkipsTimeout ==
    /\ pc = "ping_read"
    /\ \E dt \in {TimeoutMarker} \cup {Datagram(b, 0) : b \in Boards} :
          /\ Len(ping_reads) <= MaxBoard
          /\ ping_reads' = Append(ping_reads, dt)
          /\ pc' = IF Len(ping_reads) < MaxBoard THEN "ping_read" ELSE "gate"
          /\ online_boards' = IF dt.timeout THEN online_boards
                              ELSE online_boards \cup {dt.src}
    /\ UNCHANGED <<entry, ids, run, binary, target0, config_failed, silent, target,
                   bus, pages, page_i, data, offset,
                   chunks, res, valid_nodes, boards_checked, reads, msg, exit_code,
                   raised, erase_unanimous, write_unanimous>>

\* check_online_boards: one datagram of the for loop; None breaks it and the
\* set is returned to main (the reader yields at most MaxBoard + 1 replies
\* before it times out)
PingRead ==
    /\ pc = "ping_read"
    /\ \E dt \in {TimeoutMarker} \cup {Datagram(b, 0) : b \in Boards} :
          /\ ~dt.timeout => Len(ping_reads) <= MaxBoard
          /\ ping_reads' = Append(ping_reads, dt)
          /\ IF dt.timeout
             THEN /\ pc' = "gate"
                  /\ online_boards' = online_boards
             ELSE /\ pc' = "ping_read"
                  /\ online_boards' = online_boards \cup {dt.src}
    /\ UNCHANGED <<entry, ids, run, binary, target0, config_failed, silent, target, bus, pages, page_i, data, offset,
                   chunks, res, valid_nodes, boards_checked, reads, msg, exit_code,
                   raised, erase_unanimous, write_unanimous>>

\* OnlineGate that gives up only when no board answered at all
OnlineGateAnyAnswer ==
    /\ pc = "gate"
    /\ IF online_boards = {}
       THEN /\ Exit(2, [kind |-> "offline", boards |-> ids \ online_boards])
            /\ UNCHANGED <<raised, ping_reads>>
       ELSE /\ pc' = "flash_binary"
            /\ ping_reads' = <<>>
            /\ UNCHANGED <<msg, exit_code, raised>>
    /\ UNCHANGED <<entry, ids, run, binary, target0, config_failed, silent, target, bus, online_boards, pages, page_i,
                   data, offset, chunks, res, valid_nodes, boards_checked, reads,
                   erase_unanimous, write_unanimous>>

\* main: the boards that answered the ping against the requested ones (the
\* history of the ping is kept no further than the gate it was read for)
OnlineGate ==
    /\ pc = "gate"
    /\ IF online_boards # ids
       THEN /\ Exit(2, [kind |-> "offline", boards |-> ids \ online_boards])
            /\ UNCHANGED <<raised, ping_reads>>
       ELSE /\ pc' = "flash_binary"
            /\ ping_reads' = <<>>
            /\ UNCHANGED <<msg, exit_code, raised>>
    /\ UNCHANGED <<entry, ids, run, binary, target0, config_failed, silent, target, bus, online_boards, pages, page_i,
                   data, offset, chunks, res, valid_nodes, boards_checked, reads,
                   erase_unanimous, write_unanimous>>

\* where flash_binary goes once the page loop is over, and where its caller
\* goes once it returns
AfterErase(i, plan) == IF i <= Len(plan) THEN "erase" ELSE "write"
AfterFlash == IF entry = "main" THEN "check_binary" ELSE "done"
AfterCheck == IF entry = "main" THEN "verdict" ELSE "done"

\* PlanErase that erases the first page before it looks at the size
PlanEraseChecksLate ==
    /\ pc = "flash_binary"
    /\ LET p == pages_to_be_erased(target, Len(binary)) IN
          /\ target' = [target EXCEPT !.flash_pages = p.flash_pages]
          /\ pages' = p.erase
          /\ page_i' = 1
          /\ data' = binary
          /\ offset' = 0
          /\ IF p.raised # "none"
             THEN /\ Raise(p.raised)
                  /\ bus' = Append(bus, Command("erase", target.base_address, 0, 0, <<>>, ids))
             ELSE /\ pc' = AfterErase(1, p.erase)
                  /\ UNCHANGED <<msg, exit_code, raised, bus>>
    /\ UNCHANGED <<entry, ids, run, binary, target0, config_failed, silent, ping_reads, online_boards, chunks, res,
                   valid_nodes, boards_checked, reads, erase_unanimous,
                   write_unanimous>>

\* flash_binary: the pages to erase are computed; an error leaves the program
PlanErase ==
    /\ pc = "flash_binary"
    /\ LET p == pages_to_be_erased(target, Len(binary)) IN
          /\ target' = [target EXCEPT !.flash_pages = p.flash_pages]
          /\ pages' = p.erase
          /\ page_i' = 1
          /\ data' = binary
          /\ offset' = 0
          /\ IF p.raised # "none"
             THEN Raise(p.raised)
             ELSE /\ pc' = AfterErase(1, p.erase)
                  /\ UNCHANGED <<msg, exit_code, raised>>
    /\ UNCHANGED <<entry, ids, run, binary, target0, config_failed, silent, ping_reads, bus, online_boards, chunks, res,
                   valid_nodes, boards_checked, reads, erase_unanimous,
                   write_unanimous>>

\* flash_binary: one page of the erase loop: the command round, then the
\* failed boards
EraseRound ==
    /\ pc = "erase"
    /\ \E r \in Results :
          /\ bus' = Append(bus, Command("erase", pages[page_i][1], 0, 0, <<>>, ids))
          /\ res' = r
          /\ erase_unanimous' = (erase_unanimous /\ Unanimous(r, ids))
          /\ IF FailedBoards(r) # {}
             THEN /\ Exit(2, [kind |-> "erase", boards |-> FailedBoards(r)])
                  /\ UNCHANGED <<page_i, raised>>
             ELSE /\ page_i' = page_i + 1
                  /\ pc' = AfterErase(page_i + 1, pages)
                  /\ UNCHANGED <<msg, exit_code, raised>>
    /\ UNCHANGED <<entry, ids, run, binary, target0, config_failed, silent, ping_reads, target, online_boards, pages, data, offset,
                   chunks, valid_nodes, boards_checked, reads, write_unanimous>>

\* WriteRound that logs the failed boards and goes on (no sys.exit)
WriteRoundGoesOn ==
    /\ pc = "write"
    /\ LET s == slice_next(data, target.chunk_size) IN
       \E r \in Results :
          /\ data' = s.rest
          /\ bus' = Append(bus, Command("write",
                                        WriteAddress(target.base_address, offset,
                                                     target.chunk_size),
                                        0, 0, s.chunk, ids))
          /\ res' = r
          /\ write_unanimous' = (write_unanimous /\ Unanimous(r, ids))
          /\ offset' = offset + 1
          /\ pc' = IF s.more THEN "write" ELSE "config"
          /\ msg' = IF FailedBoards(r) # {}
                    THEN [kind |-> "write", boards |-> FailedBoards(r)] ELSE msg
          /\ UNCHANGED <<exit_code, raised>>
    /\ UNCHANGED <<entry, ids, run, binary, target0, config_failed, silent, ping_reads, target, online_boards, pages, page_i,
                   chunks, valid_nodes, boards_checked, reads, erase_unanimous>>

\* flash_binary: one chunk of the write loop: the generator yields it, the
\* command round writes it, then the failed boards
WriteRound ==
    /\ pc = "write"
    /\ LET s == slice_next(data, target.chunk_size) IN
       \E r \in Results :
          /\ data' = s.rest
          /\ bus' = Append(bus, Command("write",
                                        WriteAddress(target.base_address, offset,
                                                     target.chunk_size),
                                        0, 0, s.chunk, ids))
          /\ res' = r
          /\ write_unanimous' = (write_unanimous /\ Unanimous(r, ids))
          /\ IF FailedBoards(r) # {}
             THEN /\ Exit(2, [kind |-> "write", boards |-> FailedBoards(r)])
                  /\ UNCHANGED <<offset, raised>>
             ELSE /\ offset' = offset + 1
                  /\ pc' = IF s.more THEN "write" ELSE "config"
                  /\ UNCHANGED <<msg, exit_code, raised>>
    /\ UNCHANGED <<entry, ids, run, binary, target0, config_failed, silent, ping_reads, target, online_boards, pages, page_i,
                   chunks, valid_nodes, boards_checked, reads, erase_unanimous>>

\* ConfigUpdate that describes the last chunk instead of the whole binary
ConfigUpdateOfChunk ==
    /\ pc = "config"
    /\ bus' = Append(bus, Command("config", 0, Len(data), crc32(data), <<>>, ids))
    /\ \E r \in Results : config_failed' = (FailedBoards(r) \cap ids # {})
    /\ res' = <<>>
    /\ pc' = AfterFlash
    /\ UNCHANGED <<entry, ids, run, binary, target0, silent, ping_reads, target, online_boards, pages, page_i, data,
                   offset, chunks, valid_nodes, boards_checked, reads, msg,
                   exit_code, raised, erase_unanimous, write_unanimous>>

\* flash_binary: the size and the checksum of the application go to the
\* config of the boards; what the boards answer (any per-board result) is not
\* looked at, and flash_binary returns (its local res is gone)
ConfigUpdate ==
    /\ pc = "config"
    /\ bus' = Append(bus, Command("config", 0, Len(binary), crc32(binary), <<>>, ids))
    /\ \E r \in Results : config_failed' = (FailedBoards(r) \cap ids # {})
    /\ res' = <<>>
    /\ pc' = AfterFlash
    /\ UNCHANGED <<entry, ids, run, binary, target0, silent, ping_reads, target, online_boards, pages, page_i, data,
                   offset, chunks, valid_nodes, boards_checked, reads, msg,
                   exit_code, raised, erase_unanimous, write_unanimous>>

\* check_binary: the checksum command is sent
CheckBinary ==
    /\ pc = "check_binary"
    /\ bus' = Append(bus, Command("crc", target.base_address, Len(binary), 0, <<>>, ids))
    /\ valid_nodes' = <<>>
    /\ boards_checked' = 0
    /\ reads' = <<>>
    /\ pc' = IF 0 < Cardinality(ids) THEN "crc_read" ELSE AfterCheck
    /\ UNCHANGED <<entry, ids, run, binary, target0, config_failed, silent, ping_reads, target, online_boards, pages, page_i, data,
                   offset, chunks, res, msg, exit_code, raised, erase_unanimous,
                   write_unanimous>>

Timeouts(s) == Cardinality({i \in DOMAIN s : s[i].timeout})

\* the boards stop replying: from now on the reader yields timeouts only
BoardsGoSilent ==
    /\ pc = "crc_read"
    /\ ~silent
    /\ silent' = TRUE
    /\ UNCHANGED <<entry, pc, ids, run, binary, target0, config_failed, ping_reads, target,
                   bus, online_boards, pages, page_i, data, offset, chunks, res,
                   valid_nodes, boards_checked, reads, msg, exit_code, raised,
                   erase_unanimous, write_unanimous>>

\* check_binary: one datagram of the while loop (the history keeps the first
\* MaxTimeouts timeout markers)
CheckRead ==
    /\ pc = "crc_read"
    /\ \E dt \in {TimeoutMarker}
                 \cup {Datagram(b, c) : b \in Boards, c \in {crc32(binary), BadCrc}} :
          /\ ~dt.timeout => ~silent
          /\ reads' = IF dt.timeout /\ ~(Timeouts(reads) < MaxTimeouts)
                      THEN reads ELSE Append(reads, dt)
          /\ LET st == check_step([valid_nodes |-> valid_nodes,
                                   boards_checked |-> boards_checked],
                                  dt, crc32(binary)) IN
                /\ valid_nodes' = st.valid_nodes
                /\ boards_checked' = st.boards_checked
                /\ pc' = IF st.boards_checked < Cardinality(ids)
                         THEN "crc_read" ELSE AfterCheck
    /\ UNCHANGED <<entry, ids, run, binary, target0, config_failed, silent, ping_reads, target, bus, online_boards, pages, page_i,
                   data, offset, chunks, res, msg, exit_code, raised, erase_unanimous,
                   write_unanimous>>

\* Verdict whose verification_failed prints and returns (no exit)
VerdictFallsThrough ==
    /\ pc = "verdict"
    /\ msg' = IF SetOf(valid_nodes) = ids
              THEN [kind |-> "OK", boards |-> {}]
              ELSE [kind |-> "verification", boards |-> ids \ SetOf(valid_nodes)]
    /\ IF run
       THEN pc' = "run" /\ UNCHANGED exit_code
       ELSE pc' = "done" /\ exit_code' = 0
    /\ UNCHANGED <<entry, ids, run, binary, target0, config_failed, silent, ping_reads, target, bus, online_boards, pages, page_i,
                   data, offset, chunks, res, valid_nodes, boards_checked, reads,
                   raised, erase_unanimous, write_unanimous>>

\* Verdict that is content when no board outside the requested ones verified
VerdictNoStranger ==
    /\ pc = "verdict"
    /\ IF SetOf(valid_nodes) \subseteq ids
       THEN IF run
            THEN /\ pc' = "run"
                 /\ msg' = [kind |-> "OK", boards |-> {}]
                 /\ UNCHANGED exit_code
            ELSE Exit(0, [kind |-> "OK", boards |-> {}])
       ELSE Exit(1, [kind |-> "verification", boards |-> ids \ SetOf(valid_nodes)])
    /\ UNCHANGED <<entry, ids, run, binary, target0, config_failed, silent, ping_reads, target, bus, online_boards, pages, page_i,
                   data, offset, chunks, res, valid_nodes, boards_checked, reads,
                   raised, erase_unanimous, write_unanimous>>

\* main: the verified boards against the requested ones
Verdict ==
    /\ pc = "verdict"
    /\ IF SetOf(valid_nodes) = ids
       THEN IF run
            THEN /\ pc' = "run"
                 /\ msg' = [kind |-> "OK", boards |-> {}]
                 /\ UNCHANGED exit_code
            ELSE Exit(0, [kind |-> "OK", boards |-> {}])
       ELSE Exit(1, [kind |-> "verification", boards |-> ids \ SetOf(valid_nodes)])
    /\ UNCHANGED <<entry, ids, run, binary, target0, config_failed, silent, ping_reads, target, bus, online_boards, pages, page_i,
                   data, offset, chunks, res, valid_nodes, boards_checked, reads,
                   raised, erase_unanimous, write_unanimous>>

\* run_application: the jump command, no reply awaited
RunApplication ==
    /\ pc = "run"
    /\ bus' = Append(bus, Command("run", 0, 0, 0, <<>>, ids))
    /\ pc' = "done"
    /\ exit_code' = 0
    /\ UNCHANGED <<entry, ids, run, binary, target0, config_failed, silent, ping_reads, target, online_boards, pages, page_i, data,
                   offset, chunks, res, valid_nodes, boards_checked, reads, msg,
                   raised, erase_unanimous, write_unanimous>>

\* slice_into_chunks consumed by a direct caller: one slice per step
SliceIntoChunks ==
    /\ pc = "slice_into_chunks"
    /\ LET s == slice_next(data, target.chunk_size) IN
          /\ chunks' = Append(chunks, s.chunk)
          /\ data' = s.rest
          /\ pc' = IF s.more THEN "slice_into_chunks" ELSE "done"
    /\ UNCHANGED <<entry, ids, run, binary, target0, config_failed, silent, ping_reads, target, bus, online_boards, pages, page_i,
                   offset, res, valid_nodes, boards_checked, reads, msg, exit_code,
                   raised, erase_unanimous, write_unanimous>>

Next ==
    \/ CheckOnlineBoards
    \/ PingRead
    \/ OnlineGate
    \/ PlanErase
    \/ EraseRound
    \/ WriteRound
    \/ ConfigUpdate
    \/ CheckBinary
    \/ BoardsGoSilent
    \/ CheckRead
    \/ Verdict
    \/ RunApplication

NextFlash == PlanErase \/ EraseRound \/ WriteRound \/ ConfigUpdate

NextCheck == CheckBinary \/ BoardsGoSilent \/ CheckRead

NextChunks == SliceIntoChunks

Spec == Init /\ [][Next]_vars

SpecFlash == InitFlash /\ [][NextFlash]_vars

SpecCheck == InitCheck /\ [][NextCheck]_vars

SpecChunks == InitChunks /\ [][NextChunks]_vars

\* ------------------------------------------------------- what the claims read
Issued(c) == {i \in DOMAIN bus : bus[i].cmd = c}
LastCmd == IF bus = <<>> THEN "none" ELSE bus[Len(bus)].cmd

\* the last command round reported a failure for one of the destinations
DestinationFailed == \E id \in ids : id \in DOMAIN res /\ res[id] = PackedFalse

\* the pages of the target as loaded that are not reserved, and the capacity
\* they offer: last_page.address - first_page.address + last_page.size
Eligible(t) == SelectSeq(t.flash_pages, LAMBDA p : p[1] >= t.base_address)
Capacity(t) ==
    LET e == Eligible(t) IN e[Len(e)][1] - e[1][1] + e[Len(e)][2]

IsPrefix(s, t) == Len(s) <= Len(t) /\ s = Take(t, Len(s))

\* C1: when an erase round reports a failure for a destination, flash_binary
\* stops there with status 2: the failing page is the last one erased, and no
\* write command and no configuration update is on the bus.
C1_EraseFailureAborts ==
    (LastCmd = "erase" /\ DestinationFailed) =>
        /\ pc = "done"
        /\ exit_code = 2
        /\ msg.kind = "erase"
        /\ Issued("write") = {}
        /\ Issued("config") = {}
        /\ Issued("erase") = 1..page_i
        /\ \A i \in 1..page_i : bus[i].addr = pages[i][1]

\* an erase round failed on a page that is not the last of the plan
C1_Witness ==
    /\ LastCmd = "erase"
    /\ DestinationFailed
    /\ pc = "done"
    /\ page_i < Len(pages)

\* C2 (as claimed): a write command is on the bus only if every erase round
\* was confirmed by every destination, and the checksum command only if every
\* write round was; a destination without an entry in a round's result counts
\* as not confirmed.
C2_UnanimousAdvance ==
    /\ Issued("write") # {} => erase_unanimous
    /\ Issued("crc") # {} => write_unanimous

\* C3: the run command is on the bus only if execution was requested and the
\* set of verified boards equals the set of destinations.
C3_RunOnlyIfVerified ==
    Issued("run") # {} =>
        /\ run
        /\ SetOf(valid_nodes) = ids
        /\ Issued("crc") # {}
        /\ boards_checked = Cardinality(ids)

\* the run command went out
C3_Witness == Issued("run") # {} /\ pc = "done" /\ exit_code = 0

\* C4: once the gate has seen an answer set that lacks a requested board, the
\* program has ended with status 2 and the offline message, and the ping is
\* the only command it ever sent.
C4_OfflineGate ==
    (pc \notin {"main", "ping_read", "gate"} /\ ~(ids \subseteq online_boards)) =>
        /\ pc = "done"
        /\ exit_code = 2
        /\ msg.kind = "offline"
        /\ msg.boards = ids \ online_boards
        /\ Len(bus) = 1
        /\ LastCmd = "ping"

\* some requested board answered the ping, another did not
C4_Witness ==
    /\ pc = "done"
    /\ msg.kind = "offline"
    /\ online_boards # {}
    /\ ~(ids \subseteq online_boards)

\* the datagrams check_binary counted, in order (the timeouts left out)
Counted == SelectSeq(reads, LAMBDA dt : ~dt.timeout)

\* every destination replied once, and nobody else did
EachRepliedOnce ==
    /\ Len(Counted) = Cardinality(ids)
    /\ {Counted[i].src : i \in DOMAIN Counted} = ids

ReportedCorrect == {Counted[i].src : i \in {j \in DOMAIN Counted :
                                            Counted[j].crc = crc32(binary)}}
ReportedIncorrect == {Counted[i].src : i \in {j \in DOMAIN Counted :
                                              Counted[j].crc # crc32(binary)}}

\* C5: when every destination replied once, check_binary returns exactly the
\* destinations that reported the checksum of the image, and the destinations
\* it leaves out are exactly those that reported another checksum.
C5_VerifiedAreTheCorrect ==
    (entry = "check_binary" /\ pc = "done" /\ EachRepliedOnce) =>
        /\ SetOf(valid_nodes) = ReportedCorrect
        /\ ids \ SetOf(valid_nodes) = ReportedIncorrect

\* two destinations, one reported the right checksum and one a wrong one
C5_Witness ==
    /\ entry = "check_binary"
    /\ pc = "done"
    /\ EachRepliedOnce
    /\ Cardinality(ReportedCorrect) = 1
    /\ Cardinality(ReportedIncorrect) = 1

\* the while loop of check_binary run over a finite stream: the list and the
\* count it has when it leaves the loop or the stream is used up
RECURSIVE CheckLoop(_, _, _, _)
CheckLoop(st, stream, n, expected_crc) ==
    IF ~(st.boards_checked < n) \/ stream = <<>> THEN st
    ELSE CheckLoop(check_step(st, Head(stream), expected_crc), Tail(stream), n,
                   expected_crc)

\* C6: whatever check_binary has read, it stands where it would stand had it
\* read the same stream without the timeout markers: same list, same count,
\* and it has returned in the one case exactly when it has in the other.
C6_TimeoutsAreSkipped ==
    entry = "check_binary" =>
        LET st == CheckLoop([valid_nodes |-> <<>>, boards_checked |-> 0], Counted,
                            Cardinality(ids), crc32(binary)) IN
        /\ valid_nodes = st.valid_nodes
        /\ boards_checked = st.boards_checked
        /\ pc = "done" <=> ~(st.boards_checked < Cardinality(ids))

\* the stream of the spec: a timeout, then board 2 and board 1, both correct
C6_Witness ==
    /\ entry = "check_binary"
    /\ pc = "done"
    /\ ids = {1, 2}
    /\ reads = <<TimeoutMarker, Datagram(2, crc32(binary)),
                 Datagram(1, crc32(binary))>>
    /\ valid_nodes = <<2, 1>>

\* C7 (as claimed): whenever the image fits the capacity of the target as
\* loaded, pages_to_be_erased raises nothing and returns a run of the page
\* table that starts at the first page not below base_address, is large
\* enough for the image, and holds no page the image does not reach.
C7_PlanCoversImage ==
    (/\ entry = "flash_binary"
     /\ pc # "flash_binary"
     /\ Eligible(target0) # <<>>
     /\ Len(binary) <= Capacity(target0)) =>
        /\ raised = "none"
        /\ IsPrefix(pages, Eligible(target0))
        /\ SumSizes(pages) >= Len(binary)
        /\ pages # <<>> => SumSizes(pages) - pages[Len(pages)][2] < Len(binary)

\* C8 (as claimed): whenever the image is longer than the capacity of the
\* target as loaded, pages_to_be_erased raises FlashSizeError and flash_binary
\* has sent no erase command.
C8_TooLargeRaises ==
    (/\ entry = "flash_binary"
     /\ pc # "flash_binary"
     /\ Eligible(target0) # <<>>
     /\ Len(binary) > Capacity(target0)) =>
        /\ raised = "FlashSizeError"
        /\ Issued("erase") = {}

\* C9: slice_into_chunks yields at most len(data) + 1 slices, none longer than
\* chunk_size, and when it is exhausted the slices concatenated in the order
\* they were yielded are the image.
C9_ChunksRebuildImage ==
    entry = "slice_into_chunks" =>
        /\ Len(chunks) <= Len(binary) + 1
        /\ \A i \in DOMAIN chunks : Len(chunks[i]) <= target.chunk_size
        /\ pc = "done" => Concat(chunks) = binary

\* an image cut in several slices, the last one shorter than chunk_size
C9_Witness ==
    /\ entry = "slice_into_chunks"
    /\ pc = "done"
    /\ Len(chunks) >= 2
    /\ Len(chunks[Len(chunks)]) < target.chunk_size
    /\ chunks[1] # chunks[2]

\* C10: when a write round reports a failure for a destination, the program
\* stops there with status 2: that write is the last command on the bus, so
\* no write unit, erase, configuration update, checksum or run command
\* follows it.
C10_WriteFailureAborts ==
    (LastCmd = "write" /\ DestinationFailed) =>
        /\ pc = "done"
        /\ exit_code = 2
        /\ msg.kind = "write"
        /\ Issued("config") = {}
        /\ Issued("crc") = {}
        /\ Issued("run") = {}
        /\ Cardinality(Issued("write")) = offset + 1
        /\ \A i \in Issued("erase") : \A j \in Issued("write") : i < j

\* a write round failed after pages were erased, with image left to write
C10_Witness ==
    /\ LastCmd = "write"
    /\ DestinationFailed
    /\ pc = "done"
    /\ Issued("erase") # {}
    /\ Len(binary) > (offset + 1) * target.chunk_size

\* the four outcomes of a run and the status each ends with
OutcomeStatus ==
    [OK |-> 0, offline |-> 2, erase |-> 2, write |-> 2, verification |-> 1]

FlashReturned ==
    /\ entry = "flash_binary"
    /\ pc = "done"
    /\ raised = "none"
    /\ exit_code = -1

\* C12: the configuration update is never on the bus before a write command
\* and never twice; when flash_binary returns it is the last command on the
\* bus, addressed to all destinations, and carries the length and the
\* checksum of the whole image.
C12_ConfigAfterLastWrite ==
    /\ Cardinality(Issued("config")) <= 1
    /\ \A i \in Issued("config") : \A j \in Issued("write") : j < i
    /\ pc = "config" => (Issued("config") = {} /\ LastCmd = "write")
    /\ FlashReturned =>
          /\ Issued("config") = {Len(bus)}
          /\ Issued("write") # {}
          /\ bus[Len(bus)].dst = ids
          /\ bus[Len(bus)].size = Len(binary)
          /\ bus[Len(bus)].crc = crc32(binary)

\* flash_binary returned after writing an image in several chunks
C12_Witness ==
    /\ FlashReturned
    /\ Cardinality(Issued("write")) >= 2
    /\ Issued("config") # {}

\* C13 (as claimed): once the configuration update has failed on a
\* destination, neither the checksum command nor the run command is sent.
C13_ConfigFailureIsTerminal ==
    config_failed => (Issued("crc") = {} /\ Issued("run") = {})

\* the counted replies whose source is id
RepliesFrom(id) == {i \in DOMAIN Counted : Counted[i].src = id}

\* C14 (as claimed): when check_binary returns, every destination is the
\* source of exactly one counted reply.
C14_OneReplyPerDestination ==
    (entry = "check_binary" /\ pc = "done") =>
        \A id \in ids : Cardinality(RepliesFrom(id)) = 1

\* C15: while the boards are silent check_binary stays in its read loop for
\* ever: no step leaves it, sends a command, prints an outcome or ends the
\* run; and the loop is left as soon as as many replies were counted as
\* there are destinations.
C15_SilentBoardStallsVerify ==
    [][/\ (pc = "crc_read" /\ silent) =>
             /\ pc' = "crc_read"
             /\ silent'
             /\ bus' = bus
             /\ msg' = msg
             /\ exit_code' = exit_code
       /\ pc' = "crc_read" => Len(Counted') < Cardinality(ids')]_vars

\* the whole program waits on a board that has gone silent, one reply short
C15_Witness ==
    /\ entry = "main"
    /\ pc = "crc_read"
    /\ silent
    /\ Len(Counted) = Cardinality(ids) - 1
    /\ Len(Counted) >= 1
    /\ Timeouts(reads) = MaxTimeouts

\* the sources of the replies in a stream of datagrams
Sources(s) == {s[i].src : i \in {j \in DOMAIN s : ~s[j].timeout}}

\* C16: check_online_boards sends one ping, to the requested boards; while it
\* reads it has met no timeout and holds the sources read so far; when it
\* has returned, the one timeout it read is the last datagram it read and the
\* set it returned holds exactly the sources of the replies before it.
C16_PingStopsAtFirstTimeout ==
    /\ pc = "ping_read" =>
          /\ Timeouts(ping_reads) = 0
          /\ online_boards = Sources(ping_reads)
    /\ pc = "gate" =>
          /\ Timeouts(ping_reads) = 1
          /\ ping_reads[Len(ping_reads)].timeout
          /\ online_boards = Sources(Take(ping_reads, Len(ping_reads) - 1))
    /\ pc \in {"ping_read", "gate"} =>
          /\ Issued("ping") = {1}
          /\ Len(bus) = 1
          /\ bus[1].dst = ids

\* the ping returned some of the requested boards, one of them heard twice
C16_Witness ==
    /\ pc = "gate"
    /\ online_boards # {}
    /\ online_boards # ids
    /\ online_boards \subseteq ids
    /\ Len(ping_reads) = 3

\* C17 as stated: once FlashSizeError is raised, no command of any kind has
\* been sent on the bus.
C17_SizeErrorBeforeAnyTraffic ==
    raised = "FlashSizeError" => bus = <<>>

\* C17, amended: in a run of the whole program, once FlashSizeError is raised
\* the run is over with status 1 and the ping of the requested boards is the
\* one command on the bus: no erase, write, configuration, checksum or run
\* command was sent; and no run goes past the plan with an image the size
\* check rejects.
C17_SizeErrorAfterPingOnly ==
    entry = "main" =>
       /\ raised = "FlashSizeError" =>
             /\ pc = "done"
             /\ exit_code = 1
             /\ bus = <<Command("ping", 0, 0, 0, <<>>, ids)>>
       /\ (Issued("erase") \cup Issued("write") \cup Issued("config")
              \cup Issued("crc") \cup Issued("run") # {}) =>
             /\ raised # "FlashSizeError"
             /\ ~FlashTooSmall(Eligible(target0), Len(binary))

\* the whole program met an image larger than the flash behind the base
C17_Witness ==
    /\ entry = "main"
    /\ raised = "FlashSizeError"
    /\ Len(binary) > Capacity(target0)
    /\ Len(bus) = 1

\* C18: the geometry is read-only: at every point of flash_binary the
\* caller's target holds the pages, in the order, it held at the call,
\* whether pages_to_be_erased returned a plan or raised.
C18_GeometryUnchanged ==
    target = target0

\* the write commands on the bus, in the order they were sent, and the image
\* bytes sent in the first k of them
Writes == SelectSeq(bus, LAMBDA c : c.cmd = "write")
Emitted(k) == Concat([i \in 1..k |-> Writes[i].payload])

\* C19: at every point of flash_binary the k-th write command is addressed at
\* base_address + the number of image bytes sent in the writes before it, so
\* each write starts where the one before it ended and the addresses ascend;
\* once all writes succeeded (the configuration update is reached) the bytes
\* sent are the image, so the writes cover [base_address, base_address +
\* len(image)) exactly once.
C19_WritesAreContiguous ==
    /\ \A k \in 1..Len(Writes) :
          /\ Writes[k].addr = target0.base_address + Len(Emitted(k - 1))
          /\ k > 1 =>
                /\ Writes[k - 1].addr < Writes[k].addr
                /\ Writes[k - 1].addr + Len(Writes[k - 1].payload) = Writes[k].addr
          /\ IsPrefix(Emitted(k), binary)
    /\ (pc = "config" \/ Issued("config") # {}) =>
          /\ Writes # <<>>
          /\ Emitted(Len(Writes)) = binary
          /\ Writes[Len(Writes)].addr + Len(Writes[Len(Writes)].payload)
                = target0.base_address + Len(binary)

\* flash_binary returned after writing, from a base address above 0, an image
\* whose last chunk is shorter than the chunk size
C19_Witness ==
    /\ FlashReturned
    /\ target0.base_address > 0
    /\ target0.chunk_size = 2
    /\ Len(binary) = 3
    /\ Len(Writes) = 2

\* the byte addresses of a page of the target as loaded, by its address
PageBytes(a) ==
    UNION {p[1]..(p[1] + p[2] - 1) :
           p \in {target0.flash_pages[i] : i \in {j \in DOMAIN target0.flash_pages :
                                                     target0.flash_pages[j][1] = a}}}

\* C20: every byte address a write command targets lies in a page for which
\* an erase command was sent earlier, and no erase command is sent for a page
\* below base_address.
C20_EraseCoversWrite ==
    /\ \A i \in Issued("write") :
          \A a \in bus[i].addr..(bus[i].addr + Len(bus[i].payload) - 1) :
             \E j \in Issued("erase") : j < i /\ a \in PageBytes(bus[j].addr)
    /\ \A j \in Issued("erase") : bus[j].addr >= target0.base_address

\* the destination id is the source of a counted reply that carries the
\* checksum computed locally over the image
RepliedCorrect(id) ==
    \E i \in DOMAIN Counted : Counted[i].src = id /\ Counted[i].crc = crc32(binary)

\* C21: whatever the reply stream (duplicates, boards outside the
\* destinations, timeouts), once the program has reported the verification as
\* OK or has sent the run command, every destination is the source of a
\* counted reply carrying the locally computed checksum.
C21_SuccessIsSound ==
    entry = "main" =>
       ((msg.kind = "OK" \/ Issued("run") # {} \/ (pc = "done" /\ exit_code = 0))
           => \A id \in ids : RepliedCorrect(id))

\* success was reported for two destinations after a timeout in the stream,
\* and the run command went out
C21_Witness ==
    /\ entry = "main"
    /\ msg.kind = "OK"
    /\ Issued("run") # {}
    /\ Cardinality(ids) = 2
    /\ Timeouts(reads) >= 1

\* C22: the program ends at the gate with the offline message only when a
\* requested board did not answer the ping, the offline set it reports is
\* never empty, and when every requested board answered the run goes on to
\* flash_binary, whoever else answered.
C22_AbortOnlyWhenOffline ==
    /\ msg.kind = "offline" =>
          /\ ~(ids \subseteq online_boards)
          /\ msg.boards # {}
    /\ (entry = "main" /\ pc = "done" /\ Len(bus) = 1 /\ raised = "none") =>
          ~(ids \subseteq online_boards)

====
